---- MODULE Spec2Model ----
(***************************************************************************)
(* Model of the polling UniversalMCPDispatcher                             *)
(* (archive/mcp_integration/universal_manager.py) together with the        *)
(* protocol handlers and the configuration store it talks to, and of the   *)
(* registration of tools by the current UniversalMCPDispatcher             *)
(* (mcp_integration/universal_manager.py).                                 *)
(*                                                                         *)
(* Strings that the code takes apart (server names, tool names, registry   *)
(* keys) are sequences of one-character strings.  Time is in milliseconds; *)
(* elapsed[c] is time.time() - start_time of call c.  One step of a call   *)
(* is the code between two awaits.                                         *)
(***************************************************************************)
EXTENDS Integers, Sequences, FiniteSets, TLC

(* ------------------------------ bounds -------------------------------- *)
\* largest timeout (seconds) a caller passes to execute_tool
MaxTimeout == 2

\* cap of the get_result counter of one call (never reached by the code:
\* see CapNotReached)
MaxPolls == 3

\* the callers that may have an execute_tool call in flight
Calls == {"c1", "c2"}

\* timeouts callers pass (seconds); 0 is accepted by the code unchecked
Timeouts == 0..MaxTimeout

\* the timeouts a caller passes: the second caller always asks for 1 second
TimeoutsOf(c) == IF c = "c1" THEN Timeouts ELSE {1}

\* time a get_result round trip may take (ms)
Latencies == {0, 1000}

\* Python's None / a missing dict key
None == "None"

(* ------------------------- configuration rows ------------------------- *)
\* rows of mcp_servers as get_active_mcp_servers returns them; a row without
\* the poll_interval key is a record without that field
ServerA == [id |-> 1, name |-> <<"a", " ", "b">>, protocol_type |-> "http",
            tools |-> << [name |-> <<"t">>] >>]
ServerB == [id |-> 2, name |-> <<"c">>, protocol_type |-> "sse",
            poll_interval |-> 2000, tools |-> << >>]
ServerC == [id |-> 3, name |-> <<"d">>, protocol_type |-> "websocket",
            tools |-> << [name |-> <<"t">>] >>]
ServerD == [id |-> 4, name |-> <<"e">>, protocol_type |-> "grpc",
            tools |-> << [name |-> <<"t">>] >>]

\* a second row with the name of ServerB: rows are told apart by id, and
\* nothing in get_active_mcp_servers or the dispatcher keeps names distinct
ServerE == [id |-> 5, name |-> <<"c">>, protocol_type |-> "http",
            tools |-> << [name |-> <<"v">>] >>]

\* what the store may answer to get_active_mcp_servers
ActiveChoices == { << >>, <<ServerA, ServerB, ServerC, ServerD>>,
                   <<ServerB, ServerD, ServerA>> }

\* what a discovery endpoint may answer ('tools' of the JSON document); a
\* tool without a name has name << >>
DiscoveryChoices == { << >>, << [name |-> <<"u">>], [name |-> << >>] >> }

DiscoveryAnswers == [raised : {FALSE}, tools : DiscoveryChoices]
DiscoveryRaised == [raised |-> TRUE, tools |-> << >>]

\* the protocol_handlers table built by the constructor
protocol_handlers == {"http", "sse", "websocket", "stdio"}

\* handlers whose execute_tool/get_result/discover_tools are HTTP based
\* (SSEProtocolHandler inherits HTTPProtocolHandler)
HttpBased == {"http", "sse"}

(* ------------------------------ strings ------------------------------- *)
\* str.replace(' ', '_')
RECURSIVE ReplaceSpaces(_)
ReplaceSpaces(s) ==
    IF s = << >> THEN << >>
    ELSE <<IF Head(s) = " " THEN "_" ELSE Head(s)>> \o ReplaceSpaces(Tail(s))

\* f"{server['name'].replace(' ', '_')}_{tool_name}"
PrefixedToolName(server, tool_name) ==
    ReplaceSpaces(server.name) \o <<"_">> \o tool_name

\* server_config.get('protocol_type', 'http')
ProtocolType(server) ==
    IF "protocol_type" \in DOMAIN server THEN server.protocol_type ELSE "http"

\* server_config.get('poll_interval', 1000) / 1000.0, kept in milliseconds
DefaultPollInterval == 1000

\* variant of PollInterval: the milliseconds divided down twice
PollIntervalZero(server) ==
    (IF "poll_interval" \in DOMAIN server THEN server.poll_interval
     ELSE DefaultPollInterval) \div 1000000

PollInterval(server) ==
    IF "poll_interval" \in DOMAIN server THEN server.poll_interval
    ELSE DefaultPollInterval

VARIABLES
    tool_registry,   \* self.tool_registry: display name -> entry
    init_pc,         \* where initialize_tools is: "idle", "loop", "raised"
    active_servers,  \* initialize_tools' local list of rows (<< >> outside)
    init_idx,        \* index of the next row of the for loop (1 outside)
    pc,              \* per call: "off", "idle", "submitting", "sleeping",
                     \*           "polling", "done"
    tool_name,       \* per call: the tool_name argument
    registry_entry,  \* per call: the entry looked up at the start
    timeout,         \* per call: the timeout argument (seconds)
    exec_response,   \* per call: what handler.execute_tool answered
    job_id,          \* per call: the local job_id
    elapsed,         \* per call: time.time() - start_time (ms)
    n_submit,        \* per call: handler.execute_tool invocations
    n_sleep,         \* per call: asyncio.sleep invocations
    n_poll,          \* per call: handler.get_result invocations
    last_poll,       \* per call: what the latest get_result answered
    failed_at,       \* per call: index of the first poll that said failed
    failed_msg,      \* per call: the error of that poll
    poll_raised,     \* per call: some get_result raised
    outcome,         \* per call: how the call ended
    polled,          \* per call: the job ids passed to handler.get_result
    handler_args,    \* per call: the handler chosen and the arguments of
                     \* its execute_tool
    last_run,        \* when the latest whole operation was initialize_tools:
                     \* what it was answered and how it ended
    last_health,     \* when it was health_check_all_servers: the same
    cur_tool_registry, \* current dispatcher: self.tool_registry
    connected_servers, \* current dispatcher: self.connected_servers (ids)
    cur_pc,          \* current dispatcher: where initialize_tools is:
                     \*   "idle", "servers", "tools"
    servers_config,  \* its local list of rows (<< >> outside)
    cur_idx,         \* index of the row being processed (1 outside)
    cur_tools,       \* tools of that row still to be registered
    cur_log,         \* what the run in progress or just ended was answered
    cur_prev,        \* the run before it: its answers and the registry it left
    bridge,          \* the latest call of a generated callable since the
                     \* latest start of initialize_tools
    function_tools   \* MCPToolsIntegration.build_mcp_tools: its list `tools`,
                     \* per wrapper the tool's name and the wrapper's __name__

init_vars == <<tool_registry, init_pc, active_servers, init_idx>>
call_vars == <<pc, tool_name, registry_entry, handler_args, timeout, exec_response, job_id, elapsed, n_submit,
               n_sleep, n_poll, last_poll, failed_at, failed_msg, poll_raised,
               outcome, polled>>
run_vars == <<last_run, last_health>>
tools_vars == <<function_tools>>
cur_vars == <<cur_tool_registry, connected_servers, cur_pc, servers_config, cur_idx,
              cur_tools, cur_log, cur_prev, bridge>>
vars == <<tool_registry, init_pc, active_servers, init_idx,
          pc, tool_name, registry_entry, handler_args, timeout, exec_response, job_id, elapsed, n_submit,
          n_sleep, n_poll, last_poll, failed_at, failed_msg, poll_raised,
          outcome, polled,
          last_run, last_health,
          cur_tool_registry, connected_servers, cur_pc, servers_config, cur_idx,
          cur_tools, cur_log, cur_prev, bridge, function_tools>>

(* --------------------------- initialize_tools ------------------------- *)
\* the for loop over tools of one server: registers every named tool
RECURSIVE RegisterTools(_, _, _)
RegisterTools(reg, server, tools) ==
    IF tools = << >> THEN reg
    ELSE LET tool == Head(tools)
             key  == PrefixedToolName(server, tool.name)
             reg1 == IF tool.name # << >>
                     THEN [k \in (DOMAIN reg) \cup {key} |->
                             IF k = key
                             THEN [server_config |-> server, tool_config |-> tool]
                             ELSE reg[k]]
                     ELSE reg
         IN RegisterTools(reg1, server, Tail(tools))

\* what discover_tools of the server's handler can do: the placeholder
\* handlers always raise; for the HTTP ones it answers a tool list, or the
\* answer was not a JSON object, so that .get raised
DiscoveryOf(server) ==
    IF ProtocolType(server) \in HttpBased
    THEN DiscoveryAnswers \cup {DiscoveryRaised}
    ELSE {DiscoveryRaised}

\* variant of HasHandler: every protocol_type is taken to have a handler
HasHandlerAlways(server) == TRUE

\* `handler = self.protocol_handlers.get(protocol_type)` / `if not handler`
HasHandler(server) == ProtocolType(server) \in protocol_handlers

\* variant of ToolsToRegister: the stored tools are registered as well
ToolsWithStored(server, disc) == disc.tools \o server.tools

\* the tools of one iteration: the discovered ones, or the row's stored ones
\* when nothing was discovered
ToolsToRegister(server, disc) ==
    IF disc.tools = << >> THEN server.tools ELSE disc.tools

\* variant of ExceptBranch: the error leaves initialize_tools
ExceptBranchReraises(ok) == TRUE

\* the `except Exception` branch of one iteration: it prints and awaits
\* update_server_status(id, 'error'); TRUE when that write raises, which
\* nothing catches
ExceptBranch(ok) == ~ok

\* one iteration of `for server in active_servers` as a function of what it
\* is answered:
\*   disc      what handler.discover_tools did
\*   ok1, ok2  whether the first / second update_server_status succeeds
\* It yields the registry afterwards, whether an exception leaves
\* initialize_tools, and whether a handler operation was awaited.
ServerResult(reg, server, disc, ok1, ok2) ==
    IF ~HasHandler(server)
    THEN \* no handler: warning and continue
         [registry |-> reg, raised |-> FALSE, discovered |-> FALSE]
    ELSE IF disc.raised
    THEN [registry |-> reg, raised |-> ExceptBranch(ok1), discovered |-> TRUE]
    ELSE LET tools == ToolsToRegister(server, disc)
         IN [registry |-> RegisterTools(reg, server, tools),
             raised |-> IF tools = << >>
                        THEN \* "No tools found for server"
                             FALSE
                        ELSE IF ok1
                        THEN \* update_server_status(id, 'connected')
                             FALSE
                        ELSE \* that update raised inside the try
                             ExceptBranch(ok2),
             discovered |-> TRUE]

\* initialize_tools up to the for loop: read the active rows
InitializeTools ==
    /\ init_pc = "idle"
    /\ \E rows \in ActiveChoices, store_ok \in BOOLEAN :
         IF ~store_ok
         THEN \* get_active_mcp_servers raises and nothing catches it
              /\ init_pc' = "raised"
              /\ UNCHANGED <<active_servers, init_idx>>
         ELSE IF rows = << >>
         THEN \* "No active MCP servers found."
              /\ init_pc' = "idle"
              /\ UNCHANGED <<active_servers, init_idx>>
         ELSE /\ init_pc' = "loop"
              /\ active_servers' = rows
              /\ init_idx' = 1
    /\ UNCHANGED tool_registry
    /\ UNCHANGED call_vars
    /\ UNCHANGED <<run_vars, cur_vars, tools_vars>>

\* one iteration of `for server in active_servers`, from one await of the
\* loop to the next
ProcessServer ==
    /\ init_pc = "loop"
    /\ init_idx <= Len(active_servers)
    /\ LET server == active_servers[init_idx]
           next_server == /\ init_idx' = init_idx + 1
                          /\ init_pc' = "loop"
           uncaught    == /\ init_pc' = "raised"
                          /\ init_idx' = 1
       IN \E disc \in DiscoveryOf(server), ok1 \in BOOLEAN, ok2 \in BOOLEAN :
            LET res == ServerResult(tool_registry, server, disc, ok1, ok2)
            IN /\ tool_registry' = res.registry
               /\ IF res.raised THEN uncaught ELSE next_server
    /\ active_servers' = IF init_pc' = "raised" THEN << >> ELSE active_servers
    /\ UNCHANGED call_vars
    /\ UNCHANGED <<run_vars, cur_vars, tools_vars>>

\* the for loop is exhausted: "Tool initialization complete", return
InitializeToolsReturn ==
    /\ init_pc = "loop"
    /\ init_idx > Len(active_servers)
    /\ init_pc' = "idle"
    /\ active_servers' = << >>
    /\ init_idx' = 1
    /\ UNCHANGED tool_registry
    /\ UNCHANGED call_vars
    /\ UNCHANGED <<run_vars, cur_vars, tools_vars>>

\* the caller of initialize_tools sees the exception; the dispatcher stays usable
InitializeToolsRaised ==
    /\ init_pc = "raised"
    /\ init_pc' = "idle"
    /\ UNCHANGED <<tool_registry, active_servers, init_idx>>
    /\ UNCHANGED call_vars
    /\ UNCHANGED <<run_vars, cur_vars, tools_vars>>

(* ------------------- initialize_tools as one operation ---------------- *)
\* what one iteration of the for loop is answered
ServerAnswers == [disc : DiscoveryAnswers \cup {DiscoveryRaised},
                  ok1 : BOOLEAN, ok2 : BOOLEAN]

\* the answers an iteration for this row can consume; a store write that the
\* iteration does not make is entered as TRUE
AnswersFor(server) ==
    { a \in ServerAnswers :
        /\ a.disc \in DiscoveryOf(server)
        /\ ~HasHandler(server) => (a.ok1 /\ a.ok2)
        /\ a.disc.raised => a.ok2
        /\ (~a.disc.raised /\ ToolsToRegister(server, a.disc) = << >>)
              => (a.ok1 /\ a.ok2)
        /\ a.ok1 => a.ok2 }

\* one answer per row of the list
RECURSIVE AnswerSeqs(_)
AnswerSeqs(rows) ==
    IF rows = << >> THEN { << >> }
    ELSE UNION { { <<a>> \o rest : rest \in AnswerSeqs(Tail(rows)) } :
                 a \in AnswersFor(Head(rows)) }

\* the for loop over the rows: iterations until the list is exhausted or an
\* exception leaves initialize_tools
\*   acc.processed   ids of the rows whose iteration was begun
\*   acc.discovered  ids of the rows whose handler was asked to discover
RECURSIVE RunServers(_, _, _)
RunServers(acc, rows, answers) ==
    IF rows = << >> \/ acc.raised THEN acc
    ELSE LET server == Head(rows)
             a   == Head(answers)
             res == ServerResult(acc.registry, server, a.disc, a.ok1, a.ok2)
         IN RunServers([registry   |-> res.registry,
                        raised     |-> res.raised,
                        processed  |-> acc.processed \cup {server.id},
                        discovered |-> acc.discovered \cup
                                         (IF res.discovered THEN {server.id} ELSE {})],
                       Tail(rows), Tail(answers))

\* what a run of initialize_tools can be answered: get_active_mcp_servers
\* raises, or it answers rows and every iteration gets its answers
RunInputs ==
    { [store_ok |-> FALSE, rows |-> << >>, answers |-> << >>] }
    \cup UNION { { [store_ok |-> TRUE, rows |-> rows, answers |-> answers] :
                    answers \in AnswerSeqs(rows) } : rows \in ActiveChoices }

\* row lists in which two rows have the same name, and what a run over one
\* of them can be answered
SameNameChoices == { << >>, <<ServerB, ServerE>>, <<ServerE, ServerB>> }
SameNameInputs ==
    UNION { { [store_ok |-> TRUE, rows |-> rows, answers |-> answers] :
              answers \in AnswerSeqs(rows) } : rows \in SameNameChoices }

NoRun == [ran |-> FALSE, store_ok |-> TRUE, rows |-> << >>, answers |-> << >>,
          raised |-> FALSE, processed |-> {}, discovered |-> {}]
NoHealth == [ran |-> FALSE, raised |-> FALSE, unreachable |-> FALSE,
             checked |-> << >>, status |-> << >>]

\* a whole run of initialize_tools, from the call to its return or to the
\* exception that leaves it; last_run records what it was answered
InitializeToolsRunOn(inputs) ==
    /\ init_pc = "idle"
    /\ \E in \in inputs :
         LET start == [registry |-> tool_registry, raised |-> ~in.store_ok,
                       processed |-> {}, discovered |-> {}]
             res   == RunServers(start, in.rows, in.answers)
         IN /\ tool_registry' = res.registry
            /\ last_run' = [ran |-> TRUE, store_ok |-> in.store_ok,
                            rows |-> in.rows, answers |-> in.answers,
                            raised |-> res.raised, processed |-> res.processed,
                            discovered |-> res.discovered]
    /\ last_health' = NoHealth
    /\ UNCHANGED <<init_pc, active_servers, init_idx>>
    /\ UNCHANGED call_vars
    /\ UNCHANGED <<cur_vars, tools_vars>>

InitializeToolsRun == InitializeToolsRunOn(RunInputs)
InitializeToolsRunSameName == InitializeToolsRunOn(SameNameInputs)

(* ----------------------- health_check_all_servers --------------------- *)
\* the server rows the registry entries refer to
RegistryServers(reg) == { reg[k].server_config : k \in DOMAIN reg }

\* what handler.health_check can answer: the HTTP ones catch every error and
\* answer whether GET /health gave 200; the placeholder ones answer False
HealthOf(server) ==
    IF ProtocolType(server) \in HttpBased THEN BOOLEAN ELSE {FALSE}

\* the answers for one server: what health_check answers and
\* whether the first / second update_server_status succeeds
HealthAnswers(servers) ==
    { f \in [servers -> [healthy : BOOLEAN, ok1 : BOOLEAN, ok2 : BOOLEAN]] :
        \A srv \in servers : /\ f[srv].healthy \in HealthOf(srv)
                              /\ f[srv].ok1 => f[srv].ok2 }

\* the health_status entry of one server: is_healthy, overwritten with False
\* by the except branch when the status write raised; the value is a bare
\* bool, kept as a record with that one field
HealthEntry(a) == [healthy |-> a.healthy /\ a.ok1]

\* the row whose entry is the first of its name in the registry: the loop
\* checks that one and passes over every later entry of the same name. The
\* registry is kept as a function, without the insertion order of the dict,
\* so of the rows that share a name any one may be the first
FirstOfName(servers) ==
    { pick \in [{ srv.name : srv \in servers } -> servers] :
        \A n \in DOMAIN pick : pick[n].name = n }

\* a whole run of health_check_all_servers: one check per server name of the
\* registry; the exception of a status write is caught, the one of the
\* 'error' write of the except branch is not. checked counts the awaits of
\* handler.health_check per server id in a run that returns
HealthCheckAllServers ==
    /\ LET servers == RegistryServers(tool_registry)
       IN \E f \in HealthAnswers(servers), pick \in FirstOfName(servers) :
            LET visited == { pick[n] : n \in DOMAIN pick }
                raised == \E srv \in visited : ExceptBranch(f[srv].ok1)
                                                /\ ExceptBranch(f[srv].ok2)
            IN last_health' =
                 [ran |-> TRUE, raised |-> raised,
                  unreachable |-> \A srv \in visited : ~f[srv].healthy,
                  checked |-> IF raised THEN << >>
                              ELSE [i \in { srv.id : srv \in servers } |->
                                      IF \E srv \in visited :
                                           srv.id = i /\ HasHandler(srv)
                                      THEN 1 ELSE 0],
                  status |-> IF raised THEN << >>
                             ELSE [n \in DOMAIN pick |-> HealthEntry(f[pick[n]])]]
    /\ last_run' = NoRun
    /\ UNCHANGED init_vars
    /\ UNCHANGED call_vars
    /\ UNCHANGED <<cur_vars, tools_vars>>

(* ----------------------------- execute_tool --------------------------- *)
\* names callers ask for: two that initialize_tools can register and one
\* that it never registers
CallNames == { PrefixedToolName(ServerA, <<"t">>),
               PrefixedToolName(ServerB, <<"u">>),
               <<"x">> }

\* the handle a backend gives the job of caller c: every submission gets a
\* job of its own
JobHandle(c) == IF c = "c1" THEN "j1" ELSE "j2"

\* what handler.execute_tool may answer caller c (the JSON document of the
\* POST)
\*   without a job handle: any status; data only with 'completed'
\*   with a job handle: the dispatcher does not look at status or data
SubmitResponses(c) ==
    [got : {"dict"}, job_id : {None, ""}, status : {"completed"}, data : {"P", None}]
    \cup [got : {"dict"}, job_id : {None, ""},
          status : {"accepted", "pending", "processing", "error", None}, data : {None}]
    \cup [got : {"dict"}, job_id : {JobHandle(c)}, status : {"processing", "completed"},
          data : {None}]

\* what handler.get_result may answer (the JSON document of the GET)
PollResponses ==
    [got : {"dict"}, status : {"completed"}, data : {"P", None}, error : {None}]
    \cup [got : {"dict"}, status : {"failed"}, data : {None}, error : {"M", None}]
    \cup [got : {"dict"}, status : {"pending", "processing", "queued"},
          data : {None}, error : {None}]

NoResponse == [got |-> "nothing", job_id |-> None, status |-> None, data |-> None]
RaisedResponse == [got |-> "raise", job_id |-> None, status |-> None, data |-> None]
NoPoll == [got |-> "nothing", status |-> None, data |-> None, error |-> None]
RaisedPoll == [got |-> "raise", status |-> None, data |-> None, error |-> None]
NoOutcome == [kind |-> "none", of |-> "-", value |-> None]
NoEntry == << >>
NoArgs == [protocol_type |-> None, server_config |-> << >>, tool_name |-> << >>]

\* variant of HandlerArgs: the handler is given the name the caller asked for
HandlerArgsDisplayName(name, entry) ==
    [protocol_type |-> ProtocolType(entry.server_config),
     server_config |-> entry.server_config,
     tool_name |-> name]

\* the handler execute_tool picks, by the protocol_type of the entry's
\* server, and what it passes to the handler's execute_tool: the server's
\* row and tool_config.get('name')
HandlerArgs(name, entry) ==
    [protocol_type |-> ProtocolType(entry.server_config),
     server_config |-> entry.server_config,
     tool_name |-> entry.tool_config.name]

\* variant of Falsy: `if job_id is None`
FalsyIsNone(x) == x = None

\* Python truthiness of a job handle: `if not job_id`
Falsy(x) == x \in {None, ""}

\* variant of WhileCondition: `time.time() - start_time <= timeout`
WhileConditionInclusive(el, to) == el <= to * 1000

\* the loop condition `time.time() - start_time < timeout`
WhileCondition(el, to) == el < to * 1000

\* result_response.get('error', 'Unknown error')
ErrorMsg(r) == IF r.error = None THEN "Unknown error" ELSE r.error

\* variant of Ends: the outcome is noted but the coroutine is not left
EndsNotLeft(c, o) ==
    /\ pc' = pc
    /\ outcome' = [outcome EXCEPT ![c] = o]

\* the call ends: a value is returned or an exception leaves execute_tool
\* (the outer `except Exception` prints and re-raises)
Ends(c, o) ==
    /\ pc' = [pc EXCEPT ![c] = "done"]
    /\ outcome' = [outcome EXCEPT ![c] = o]

\* top of `while`: the next iteration starts with asyncio.sleep, or the loop
\* is left and TimeoutError is raised
LoopTop(c, el) ==
    IF WhileCondition(el, timeout[c])
    THEN /\ pc' = [pc EXCEPT ![c] = "sleeping"]
         /\ n_sleep' = [n_sleep EXCEPT ![c] = @ + 1]
         /\ UNCHANGED outcome
    ELSE /\ Ends(c, [kind |-> "TimeoutError", of |-> "-", value |-> None])
         /\ UNCHANGED n_sleep

\* variant of Call: the lookup takes the entry out of the registry
\* (`self.tool_registry.pop(tool_name)`)
CallPops(c) ==
    /\ pc[c] = "idle"
    /\ \E name \in CallNames, t \in TimeoutsOf(c) :
         /\ tool_name' = [tool_name EXCEPT ![c] = name]
         /\ timeout' = [timeout EXCEPT ![c] = t]
         /\ IF name \notin DOMAIN tool_registry
            THEN /\ Ends(c, [kind |-> "ValueError", of |-> "-", value |-> "not found in registry"])
                 /\ UNCHANGED <<registry_entry, handler_args, n_submit, tool_registry>>
            ELSE LET entry == tool_registry[name]
                 IN IF ProtocolType(entry.server_config) \notin protocol_handlers
                    THEN /\ Ends(c, [kind |-> "ValueError", of |-> "-", value |-> "no protocol handler"])
                         /\ UNCHANGED <<registry_entry, handler_args, n_submit, tool_registry>>
                    ELSE /\ pc' = [pc EXCEPT ![c] = "submitting"]
                         /\ registry_entry' = [registry_entry EXCEPT ![c] = entry]
                         /\ handler_args' = [handler_args EXCEPT ![c] = HandlerArgs(name, entry)]
                         /\ tool_registry' = [k \in (DOMAIN tool_registry) \ {name} |->
                                               tool_registry[k]]
                         /\ n_submit' = [n_submit EXCEPT ![c] = @ + 1]
                         /\ UNCHANGED outcome
    /\ UNCHANGED <<exec_response, job_id, elapsed, n_sleep, n_poll, last_poll,
                   failed_at, failed_msg, poll_raised, polled>>
    /\ UNCHANGED <<init_pc, active_servers, init_idx>>
    /\ UNCHANGED <<run_vars, cur_vars, tools_vars>>

\* execute_tool from its first line to `await handler.execute_tool(...)`
Call(c) ==
    /\ pc[c] = "idle"
    /\ \E name \in CallNames, t \in TimeoutsOf(c) :
         /\ tool_name' = [tool_name EXCEPT ![c] = name]
         /\ timeout' = [timeout EXCEPT ![c] = t]
         /\ IF name \notin DOMAIN tool_registry
            THEN /\ Ends(c, [kind |-> "ValueError", of |-> "-", value |-> "not found in registry"])
                 /\ UNCHANGED <<registry_entry, handler_args, n_submit>>
            ELSE LET entry == tool_registry[name]
                 IN IF ProtocolType(entry.server_config) \notin protocol_handlers
                    THEN /\ Ends(c, [kind |-> "ValueError", of |-> "-", value |-> "no protocol handler"])
                         /\ UNCHANGED <<registry_entry, handler_args, n_submit>>
                    ELSE /\ pc' = [pc EXCEPT ![c] = "submitting"]
                         /\ registry_entry' = [registry_entry EXCEPT ![c] = entry]
                         /\ handler_args' = [handler_args EXCEPT ![c] = HandlerArgs(name, entry)]
                         /\ n_submit' = [n_submit EXCEPT ![c] = @ + 1]
                         /\ UNCHANGED outcome
    /\ UNCHANGED <<exec_response, job_id, elapsed, n_sleep, n_poll, last_poll,
                   failed_at, failed_msg, poll_raised, polled>>
    /\ UNCHANGED init_vars
    /\ UNCHANGED <<run_vars, cur_vars, tools_vars>>

\* handler.execute_tool returns or raises; the code up to the first
\* asyncio.sleep
SubmitReturn(c) ==
    /\ pc[c] = "submitting"
    /\ LET proto == handler_args[c].protocol_type
       IN \E resp \in (IF proto \in HttpBased
                        THEN SubmitResponses(c) \cup {RaisedResponse}
                        ELSE {RaisedResponse}) :
          IF resp.got = "raise"
          THEN \* httpx error, raise_for_status, NotImplementedError, ...
               /\ exec_response' = [exec_response EXCEPT ![c] = RaisedResponse]
               /\ Ends(c, [kind |-> "HandlerError", of |-> "-", value |-> None])
               /\ UNCHANGED <<job_id, elapsed, n_sleep>>
          ELSE /\ exec_response' = [exec_response EXCEPT ![c] = resp]
               /\ job_id' = [job_id EXCEPT ![c] = resp.job_id]
               /\ IF Falsy(resp.job_id)
                  THEN /\ IF resp.status = "completed"
                          THEN Ends(c, [kind |-> "return", of |-> "data", value |-> resp.data])
                          ELSE IF resp.status = "accepted"
                          THEN Ends(c, [kind |-> "ValueError", of |-> "-",
                                        value |-> "accepted but no job_id"])
                          ELSE Ends(c, [kind |-> "return", of |-> "response",
                                        value |-> resp.status])
                       /\ UNCHANGED <<elapsed, n_sleep>>
                  ELSE \* start_time = time.time()
                       /\ elapsed' = [elapsed EXCEPT ![c] = 0]
                       /\ LoopTop(c, 0)
    /\ UNCHANGED <<tool_name, registry_entry, handler_args, timeout, n_submit, n_poll, last_poll,
                   failed_at, failed_msg, poll_raised, polled>>
    /\ UNCHANGED init_vars
    /\ UNCHANGED <<run_vars, cur_vars, tools_vars>>

\* variant of PolledJobId: the handle is kept on the dispatcher, where the
\* latest submission of any call overwrites it
PolledJobIdShared(c) ==
    IF \E d \in Calls \ {c} : ~Falsy(job_id[d])
    THEN job_id[CHOOSE d \in Calls \ {c} : ~Falsy(job_id[d])]
    ELSE job_id[c]

\* the handle passed to handler.get_result: the call's local job_id
PolledJobId(c) == job_id[c]

\* asyncio.sleep(poll_interval_seconds) is over; get_result is called
Wake(c) ==
    /\ pc[c] = "sleeping"
    /\ n_poll[c] < MaxPolls
    /\ elapsed' = [elapsed EXCEPT ![c] = @ + PollInterval(registry_entry[c].server_config)]
    /\ n_poll' = [n_poll EXCEPT ![c] = @ + 1]
    /\ polled' = [polled EXCEPT ![c] = @ \cup {PolledJobId(c)}]
    /\ pc' = [pc EXCEPT ![c] = "polling"]
    /\ UNCHANGED <<tool_name, registry_entry, handler_args, timeout, exec_response, job_id,
                   n_submit, n_sleep, last_poll, failed_at, failed_msg,
                   poll_raised, outcome>>
    /\ UNCHANGED init_vars
    /\ UNCHANGED <<run_vars, cur_vars, tools_vars>>

\* variant of PollError: the exception of the poll leaves execute_tool
PollErrorPropagates(c, el) ==
    /\ Ends(c, [kind |-> "HandlerError", of |-> "-", value |-> None])
    /\ UNCHANGED <<n_sleep, n_submit>>

\* variant of PollError: a poll that raised before the deadline makes the
\* call submit the job again
PollErrorResubmit(c, el) ==
    IF el >= timeout[c] * 1000
    THEN /\ Ends(c, [kind |-> "TimeoutError", of |-> "-", value |-> None])
         /\ UNCHANGED <<n_sleep, n_submit>>
    ELSE /\ pc' = [pc EXCEPT ![c] = "submitting"]
         /\ n_submit' = [n_submit EXCEPT ![c] = @ + 1]
         /\ UNCHANGED <<n_sleep, outcome>>

\* the `except Exception as poll_error` branch of the loop body
PollError(c, el) ==
    /\ IF el >= timeout[c] * 1000
       THEN \* break, then raise asyncio.TimeoutError
            /\ Ends(c, [kind |-> "TimeoutError", of |-> "-", value |-> None])
            /\ UNCHANGED n_sleep
       ELSE LoopTop(c, el)
    /\ UNCHANGED n_submit

\* variant of PollCompleted: `return result_response`
PollCompletedWhole(r) == [kind |-> "return", of |-> "response", value |-> r.status]

\* the `completed` branch: return result_response.get('data')
PollCompleted(r) == [kind |-> "return", of |-> "data", value |-> r.data]

\* variant of UnknownStatus: an unrecognized status raises
UnknownStatusRaises(c, el) ==
    /\ Ends(c, [kind |-> "ValueError", of |-> "-", value |-> "unknown status"])
    /\ UNCHANGED n_sleep

\* the `else` branch: "Warning: Unknown status", then the next loop test
UnknownStatus(c, el) == LoopTop(c, el)

\* what `raise RuntimeError(...)` of the failed branch leads to: the raise
\* is inside the loop's try, whose `except Exception` catches it
FailedBranch(c, el, msg) == PollError(c, el)

\* handler.get_result returns or raises after d ms; the rest of the loop
\* body and the next loop test
PollReturn(c) ==
    /\ pc[c] = "polling"
    /\ \E d \in Latencies, r \in PollResponses \cup {RaisedPoll} :
         LET el == elapsed[c] + d
         IN /\ elapsed' = [elapsed EXCEPT ![c] = el]
            /\ IF r.got = "raise"
               THEN /\ last_poll' = [last_poll EXCEPT ![c] = RaisedPoll]
                    /\ poll_raised' = [poll_raised EXCEPT ![c] = TRUE]
                    /\ PollError(c, el)
                    /\ UNCHANGED <<failed_at, failed_msg>>
               ELSE /\ last_poll' = [last_poll EXCEPT ![c] = r]
                    /\ UNCHANGED poll_raised
                    /\ IF r.status = "completed"
                       THEN /\ Ends(c, PollCompleted(r))
                            /\ UNCHANGED <<n_submit, n_sleep, failed_at, failed_msg>>
                       ELSE IF r.status = "failed"
                       THEN /\ IF failed_at[c] = 0
                               THEN /\ failed_at' = [failed_at EXCEPT ![c] = n_poll[c]]
                                    /\ failed_msg' = [failed_msg EXCEPT ![c] = ErrorMsg(r)]
                               ELSE UNCHANGED <<failed_at, failed_msg>>
                            /\ FailedBranch(c, el, ErrorMsg(r))
                       ELSE IF r.status = "pending"
                       THEN \* continue
                            /\ LoopTop(c, el)
                            /\ UNCHANGED <<n_submit, failed_at, failed_msg>>
                       ELSE /\ UnknownStatus(c, el)
                            /\ UNCHANGED <<n_submit, failed_at, failed_msg>>
    /\ UNCHANGED <<tool_name, registry_entry, handler_args, timeout, exec_response, job_id,
                   n_poll, polled>>
    /\ UNCHANGED init_vars
    /\ UNCHANGED <<run_vars, cur_vars, tools_vars>>

\* the caller has the outcome and may call again
Finish(c) ==
    /\ pc[c] = "done"
    /\ pc' = [pc EXCEPT ![c] = "idle"]
    /\ tool_name' = [tool_name EXCEPT ![c] = << >>]
    /\ registry_entry' = [registry_entry EXCEPT ![c] = NoEntry]
    /\ handler_args' = [handler_args EXCEPT ![c] = NoArgs]
    /\ timeout' = [timeout EXCEPT ![c] = 0]
    /\ exec_response' = [exec_response EXCEPT ![c] = NoResponse]
    /\ job_id' = [job_id EXCEPT ![c] = None]
    /\ elapsed' = [elapsed EXCEPT ![c] = 0]
    /\ n_submit' = [n_submit EXCEPT ![c] = 0]
    /\ n_sleep' = [n_sleep EXCEPT ![c] = 0]
    /\ n_poll' = [n_poll EXCEPT ![c] = 0]
    /\ last_poll' = [last_poll EXCEPT ![c] = NoPoll]
    /\ failed_at' = [failed_at EXCEPT ![c] = 0]
    /\ failed_msg' = [failed_msg EXCEPT ![c] = None]
    /\ poll_raised' = [poll_raised EXCEPT ![c] = FALSE]
    /\ outcome' = [outcome EXCEPT ![c] = NoOutcome]
    /\ polled' = [polled EXCEPT ![c] = {}]
    /\ UNCHANGED init_vars
    /\ UNCHANGED <<run_vars, cur_vars, tools_vars>>

(* ------------------------- current dispatcher ------------------------- *)
(* The UniversalMCPDispatcher of mcp_integration/universal_manager.py: it    *)
(* registers a tool under its own name and renames it on a collision.        *)

\* rows as getMcpServersByUserId returns them; the table has no
\* protocol_type column, a row carries the key only when its source adds it
CurServer1 == [id |-> 1, name |-> <<"A", " ", "b">>, is_active |-> TRUE]
CurServer2 == [id |-> 2, name |-> <<"c">>, is_active |-> TRUE,
               protocol_type |-> "http"]
CurServer3 == [id |-> 3, name |-> <<"d">>, is_active |-> TRUE,
               protocol_type |-> "grpc"]

\* what the store may answer to getMcpServersByUserId
CurServerChoices == { << >>, <<CurServer1, CurServer2>>,
                      <<CurServer2, CurServer3, CurServer1>> }

\* the protocol_handlers table built by the constructor
cur_protocol_handlers == {"http", "http_post", "sse", "websocket", "stdio"}

\* server_config.get('protocol_type', 'sse')
CurProtocolType(server) ==
    IF "protocol_type" \in DOMAIN server THEN server.protocol_type ELSE "sse"

\* what discover_tools may be answered ('tools' of the manifest); a tool
\* without a name has tool_name << >>.  The handlers catch their own errors
\* and answer an empty list; `raised` is a manifest that is no JSON object,
\* so that manifest.get raises inside _process_server
CurManifests ==
    [raised : {FALSE},
     tools : { << >>,
               << [tool_name |-> <<"t">>] >>,
               << [tool_name |-> <<"t">>], [tool_name |-> << >>],
                  [tool_name |-> <<"t">>] >>,
               << [tool_name |-> <<"c", "_", "t">>], [tool_name |-> <<"t">>] >> }]
    \cup { [raised |-> TRUE, tools |-> << >>] }

\* the iteration awaited nothing (the row was skipped)
NoManifest == [raised |-> FALSE, tools |-> << >>]

\* str.lower() on the letters the rows use
UpperToLower == ("A" :> "a") @@ ("B" :> "b") @@ ("C" :> "c") @@ ("D" :> "d")
ToLower(str) ==
    [i \in DOMAIN str |-> IF str[i] \in DOMAIN UpperToLower
                          THEN UpperToLower[str[i]] ELSE str[i]]

\* variant of NormalizedServerName: the name is not lower-cased
NormalizedServerNameAsIs(server) == ReplaceSpaces(server.name)

\* server_config['name'].lower().replace(' ', '_')
NormalizedServerName(server) == ReplaceSpaces(ToLower(server.name))

\* variant of ClearRegistry: the entries of the run before stay
ClearRegistryKeeps(reg) == reg

\* self.tool_registry.clear()
ClearRegistry(reg) == << >>

\* the name a tool is registered under: its own, or on a conflict the one
\* prefixed with the server's name
RegistryKey(reg, server, tool_name_) ==
    IF tool_name_ \in DOMAIN reg
    THEN NormalizedServerName(server) \o <<"_">> \o tool_name_
    ELSE tool_name_

NoLog == [ran |-> FALSE, store_ok |-> TRUE, rows |-> << >>, answers |-> << >>]
NoPrev == [log |-> NoLog, registry |-> << >>]

\* values as Python types them: a str is kept with what it says, a dict
\* with its 'status' and 'content' (None: the key is missing)
Str(says) == [type |-> "str", says |-> says, status |-> None, content |-> None]
Dict(status, content) ==
    [type |-> "dict", says |-> None, status |-> status, content |-> content]

\* how an awaited coroutine ends: it returns a value or raises
Returned(value) == [kind |-> "return", value |-> value]
Raised(exc) == [kind |-> "raise", value |-> Str(exc)]

\* no callable was called yet
NoBridge == [called |-> FALSE, name |-> << >>, found |-> FALSE, in_run |-> FALSE,
             handler |-> Returned(Str("")), tool_wrapper |-> Returned(Str("")),
             mcp_tool_wrapper |-> Returned(Str(""))]

\* initialize_tools up to the for loop: read the rows, clear the registry.
\* An exception of the store is caught by initialize_tools' own except,
\* which returns [] before anything was cleared.
CurInitializeTools ==
    /\ cur_pc = "idle"
    /\ cur_prev' = [log |-> cur_log, registry |-> cur_tool_registry]
    /\ bridge' = NoBridge
    /\ \E rows \in CurServerChoices, store_ok \in BOOLEAN :
         IF ~store_ok
         THEN /\ cur_log' = [ran |-> TRUE, store_ok |-> FALSE, rows |-> << >>,
                             answers |-> << >>]
              /\ UNCHANGED <<cur_tool_registry, connected_servers, cur_pc,
                             servers_config, cur_idx>>
         ELSE /\ cur_log' = [ran |-> TRUE, store_ok |-> TRUE, rows |-> rows,
                             answers |-> << >>]
              /\ cur_tool_registry' = ClearRegistry(cur_tool_registry)
              /\ connected_servers' = {}
              /\ servers_config' = rows
              /\ cur_idx' = 1
              /\ cur_pc' = "servers"
    /\ UNCHANGED cur_tools
    /\ UNCHANGED <<init_vars, call_vars, run_vars, tools_vars>>

\* _process_server up to the registration loop: handler lookup, health_check
\* (its answer changes nothing), discover_tools
CurProcessServer ==
    /\ cur_pc = "servers"
    /\ cur_idx <= Len(servers_config)
    /\ LET server == servers_config[cur_idx]
           skip(m) == /\ cur_idx' = cur_idx + 1
                      /\ cur_log' = [cur_log EXCEPT !.answers = Append(@, m)]
                      /\ UNCHANGED <<cur_pc, cur_tools>>
       IN IF ~server.is_active
          THEN skip(NoManifest)
          ELSE IF CurProtocolType(server) \notin cur_protocol_handlers
          THEN \* "Unknown protocol type", return
               skip(NoManifest)
          ELSE \E manifest \in CurManifests :
                 IF manifest.raised \/ manifest.tools = << >>
                 THEN \* the except branch / "No tools discovered", return
                      skip(manifest)
                 ELSE /\ cur_tools' = manifest.tools
                      /\ cur_pc' = "tools"
                      /\ cur_log' = [cur_log EXCEPT !.answers = Append(@, manifest)]
                      /\ UNCHANGED cur_idx
    /\ UNCHANGED <<cur_tool_registry, connected_servers, servers_config, cur_prev,
                   bridge>>
    /\ UNCHANGED <<init_vars, call_vars, run_vars, tools_vars>>

\* one iteration of `for tool in tools`
CurRegisterTool ==
    /\ cur_pc = "tools"
    /\ cur_tools # << >>
    /\ LET server == servers_config[cur_idx]
           tool   == Head(cur_tools)
           key    == RegistryKey(cur_tool_registry, server, tool.tool_name)
       IN IF tool.tool_name = << >>
          THEN \* `if not tool_name: continue`
               UNCHANGED cur_tool_registry
          ELSE cur_tool_registry' =
                 [k \in (DOMAIN cur_tool_registry) \cup {key} |->
                    IF k = key
                    THEN [server_config |-> server, tool_info |-> tool,
                          server_id |-> server.id,
                          original_tool_name |-> tool.tool_name]
                    ELSE cur_tool_registry[k]]
    /\ cur_tools' = Tail(cur_tools)
    /\ UNCHANGED <<connected_servers, cur_pc, servers_config, cur_idx, cur_log,
                   cur_prev, bridge>>
    /\ UNCHANGED <<init_vars, call_vars, run_vars, tools_vars>>

\* the tools of the server are registered: "Mark server as connected"
CurServerDone ==
    /\ cur_pc = "tools"
    /\ cur_tools = << >>
    /\ connected_servers' = connected_servers \cup {servers_config[cur_idx].id}
    /\ cur_idx' = cur_idx + 1
    /\ cur_pc' = "servers"
    /\ UNCHANGED <<cur_tool_registry, servers_config, cur_tools, cur_log, cur_prev,
                   bridge>>
    /\ UNCHANGED <<init_vars, call_vars, run_vars, tools_vars>>

\* the for loop over the rows is exhausted: the callables are generated and
\* returned
CurInitializeToolsReturn ==
    /\ cur_pc = "servers"
    /\ cur_idx > Len(servers_config)
    /\ cur_pc' = "idle"
    /\ servers_config' = << >>
    /\ cur_idx' = 1
    /\ UNCHANGED <<cur_tool_registry, connected_servers, cur_tools, cur_log, cur_prev,
                   bridge>>
    /\ UNCHANGED <<init_vars, call_vars, run_vars, tools_vars>>

(* ------------------- execute_tool and the callables ------------------- *)
\* how handler.execute_tool can end: the handlers answer a dict with status
\* 'success' or 'error'; the dispatcher's try also covers a raise
CurHandlerOutcomes ==
    { Returned(Dict("success", "text")), Returned(Dict("error", "msg")),
      Returned(Dict("error", None)), Raised("Exception") }

\* names the callers of execute_tool ask for
CurCallNames == { <<"t">>, <<"c", "_", "t">>, <<"x">> }

\* variant of ExecuteToolExcept: the exception leaves execute_tool
ExecuteToolExceptPropagates(exc) == Raised(exc)

\* `except Exception as e: return f"Error: Tool execution failed - {e}"`
ExecuteToolExcept(exc) == Returned(Str("Error: Tool execution failed"))

\* execute_tool of the current dispatcher: registry lookup, the handler's
\* execute_tool, the response normalised to a string
CurExecuteTool(reg, name, h) ==
    IF name \notin DOMAIN reg
    THEN Returned(Str("Error: Tool not found in registry"))
    ELSE IF h.kind = "raise"
    THEN ExecuteToolExcept(h.value.says)
    ELSE IF h.value.status = "success"
    THEN Returned(Str(IF h.value.content = None
                      THEN "Tool executed successfully" ELSE h.value.content))
    ELSE Returned(Str(IF h.value.content = None
                      THEN "Error: Unknown error occurred" ELSE "Error: msg"))

\* tool_wrapper of _generate_function_tools: `return await self.execute_tool`
ToolWrapper(reg, name, h) == CurExecuteTool(reg, name, h)

\* format_search_results: every branch answers a str, str(...) of the value
\* or of its 'content', and so does its own except
FormatSearchResults(result) ==
    IF result.type = "dict"
    THEN IF result.content # None THEN Str(result.content) ELSE Str("str(result)")
    ELSE IF result.type = "str" THEN Str(result.says) ELSE Str("str(result)")

\* mcp_tool_wrapper of Assistant.initialize_mcp: execute_tool, then
\* format_search_results; an exception becomes "Error executing ..."
McpToolWrapper(reg, name, h) ==
    LET result == CurExecuteTool(reg, name, h)
    IN IF result.kind = "raise"
       THEN Returned(Str("Error executing"))
       ELSE Returned(FormatSearchResults(result.value))

\* a call of the callable generated for a tool. The registry is read once,
\* before the handler is awaited, so the call is one step; it can start
\* wherever initialize_tools is suspended in an await, which is not inside
\* the registration loop of a server
BridgeCall ==
    /\ cur_pc \in {"idle", "servers"}
    /\ \E name \in CurCallNames, h \in CurHandlerOutcomes :
         bridge' = [called |-> TRUE, name |-> name,
                    found |-> name \in DOMAIN cur_tool_registry,
                    in_run |-> cur_pc # "idle",
                    handler |-> IF name \in DOMAIN cur_tool_registry
                                THEN h ELSE Returned(Str("")),
                    tool_wrapper |-> ToolWrapper(cur_tool_registry, name, h),
                    mcp_tool_wrapper |-> McpToolWrapper(cur_tool_registry, name, h)]
    /\ UNCHANGED <<cur_tool_registry, connected_servers, cur_pc, servers_config,
                   cur_idx, cur_tools, cur_log, cur_prev>>
    /\ UNCHANGED <<init_vars, call_vars, run_vars, tools_vars>>

(* ------------------------- MCPToolsIntegration ------------------------ *)
\* the wrappers build_mcp_tools makes in the runs explored
MaxTools == 2

\* tool names a server may list: up to three characters of a letter, '-',
\* '_' and ' '
NameChars == {"a", "-", "_", " "}
ToolNameChoices ==
    UNION { [1..n -> NameChars] : n \in 1..3 }

\* str.replace(old, new) for one-character old and new
RECURSIVE Replace(_, _, _)
Replace(str, old, new) ==
    IF str = << >> THEN << >>
    ELSE <<IF Head(str) = old THEN new ELSE Head(str)>> \o Replace(Tail(str), old, new)

\* f"mcp_{tool_name}".replace("-", "_").replace(" ", "_")
SanitizedName(tool_name_) ==
    Replace(Replace(<<"m", "c", "p", "_">> \o tool_name_, "-", "_"), " ", "_")

\* one iteration of `for mcp_tool in mcp_tools` of build_mcp_tools:
\* _create_tool_wrapper names the wrapper and the wrapper joins the list
CreateToolWrapper ==
    /\ Len(function_tools) < MaxTools
    /\ \E tool_name_ \in ToolNameChoices :
         function_tools' = Append(function_tools,
                                  [tool_name |-> tool_name_,
                                   name |-> SanitizedName(tool_name_)])
    /\ UNCHANGED <<init_vars, call_vars, run_vars, cur_vars>>

(* ---------------------------- specification --------------------------- *)
\* the state after UniversalMCPDispatcher(storage); one caller
Init ==
    /\ tool_registry = << >>
    /\ init_pc = "idle"
    /\ active_servers = << >>
    /\ init_idx = 1
    /\ pc = [c \in Calls |-> IF c = "c1" THEN "idle" ELSE "off"]
    /\ tool_name = [c \in Calls |-> << >>]
    /\ registry_entry = [c \in Calls |-> NoEntry]
    /\ handler_args = [c \in Calls |-> NoArgs]
    /\ timeout = [c \in Calls |-> 0]
    /\ exec_response = [c \in Calls |-> NoResponse]
    /\ job_id = [c \in Calls |-> None]
    /\ elapsed = [c \in Calls |-> 0]
    /\ n_submit = [c \in Calls |-> 0]
    /\ n_sleep = [c \in Calls |-> 0]
    /\ n_poll = [c \in Calls |-> 0]
    /\ last_poll = [c \in Calls |-> NoPoll]
    /\ failed_at = [c \in Calls |-> 0]
    /\ failed_msg = [c \in Calls |-> None]
    /\ poll_raised = [c \in Calls |-> FALSE]
    /\ outcome = [c \in Calls |-> NoOutcome]
    /\ polled = [c \in Calls |-> {}]
    /\ last_run = NoRun
    /\ last_health = NoHealth
    /\ cur_tool_registry = << >>
    /\ connected_servers = {}
    /\ cur_pc = "idle"
    /\ servers_config = << >>
    /\ cur_idx = 1
    /\ cur_tools = << >>
    /\ cur_log = NoLog
    /\ cur_prev = NoPrev
    /\ bridge = NoBridge
    /\ function_tools = << >>

Next ==
    \/ InitializeTools
    \/ ProcessServer
    \/ InitializeToolsReturn
    \/ InitializeToolsRaised
    \/ \E c \in Calls : Call(c)
    \/ \E c \in Calls : SubmitReturn(c)
    \/ \E c \in Calls : Wake(c)
    \/ \E c \in Calls : PollReturn(c)
    \/ \E c \in Calls : Finish(c)

Spec == Init /\ [][Next]_vars

\* every awaited handler call returns or raises, and every sleep ends
Fairness ==
    \A c \in Calls : WF_vars(SubmitReturn(c) \/ Wake(c) \/ PollReturn(c))

LiveSpec == Init /\ [][Next]_vars /\ Fairness

\* a dispatcher whose registry a run of initialize_tools has filled (the rows
\* ServerB, ServerD, ServerA; ServerB's discovery answered a tool, ServerA's
\* answered none), with two callers
TwoRegistry ==
    RegisterTools(RegisterTools(<< >>, ServerB, << [name |-> <<"u">>] >>),
                  ServerA, ServerA.tools)

TwoInit ==
    /\ tool_registry = TwoRegistry
    /\ init_pc = "idle"
    /\ active_servers = << >>
    /\ init_idx = 1
    /\ pc = [c \in Calls |-> "idle"]
    /\ tool_name = [c \in Calls |-> << >>]
    /\ registry_entry = [c \in Calls |-> NoEntry]
    /\ handler_args = [c \in Calls |-> NoArgs]
    /\ timeout = [c \in Calls |-> 0]
    /\ exec_response = [c \in Calls |-> NoResponse]
    /\ job_id = [c \in Calls |-> None]
    /\ elapsed = [c \in Calls |-> 0]
    /\ n_submit = [c \in Calls |-> 0]
    /\ n_sleep = [c \in Calls |-> 0]
    /\ n_poll = [c \in Calls |-> 0]
    /\ last_poll = [c \in Calls |-> NoPoll]
    /\ failed_at = [c \in Calls |-> 0]
    /\ failed_msg = [c \in Calls |-> None]
    /\ poll_raised = [c \in Calls |-> FALSE]
    /\ outcome = [c \in Calls |-> NoOutcome]
    /\ polled = [c \in Calls |-> {}]
    /\ last_run = NoRun
    /\ last_health = NoHealth
    /\ cur_tool_registry = << >>
    /\ connected_servers = {}
    /\ cur_pc = "idle"
    /\ servers_config = << >>
    /\ cur_idx = 1
    /\ cur_tools = << >>
    /\ cur_log = NoLog
    /\ cur_prev = NoPrev
    /\ bridge = NoBridge
    /\ function_tools = << >>

TwoNext ==
    \/ \E c \in Calls : Call(c)
    \/ \E c \in Calls : SubmitReturn(c)
    \/ \E c \in Calls : Wake(c)
    \/ \E c \in Calls : PollReturn(c)
    \/ \E c \in Calls : Finish(c)

TwoSpec == TwoInit /\ [][TwoNext]_vars

\* the current dispatcher
CurNext ==
    \/ CurInitializeTools
    \/ CurProcessServer
    \/ CurRegisterTool
    \/ CurServerDone
    \/ CurInitializeToolsReturn
    \/ BridgeCall

CurSpec == Init /\ [][CurNext]_vars

\* the dispatcher used through whole operations only
RunNext ==
    \/ InitializeToolsRun
    \/ HealthCheckAllServers

RunSpec == Init /\ [][RunNext]_vars

\* the wrappers of MCPToolsIntegration
ToolsNext == CreateToolWrapper
ToolsSpec == Init /\ [][ToolsNext]_vars

\* whole operations of the archive dispatcher over rows that share a name
SameNameNext ==
    \/ InitializeToolsRunSameName
    \/ HealthCheckAllServers
SameNameSpec == Init /\ [][SameNameNext]_vars

TypeOK ==
    /\ init_pc \in {"idle", "loop", "raised"}
    /\ cur_pc \in {"idle", "servers", "tools"}
    /\ connected_servers \subseteq {CurServer1.id, CurServer2.id, CurServer3.id}
    /\ last_run.raised \in BOOLEAN /\ last_health.raised \in BOOLEAN
    /\ \A c \in Calls :
         /\ pc[c] \in {"off", "idle", "submitting", "sleeping", "polling", "done"}
         /\ n_submit[c] \in 0..1
         /\ n_poll[c] \in 0..MaxPolls
         /\ outcome[c].kind \in {"none", "return", "ValueError", "RuntimeError",
                                 "TimeoutError", "HandlerError"}

\* the cap MaxPolls never stops a sleeping call from polling
CapNotReached == \A c \in Calls : pc[c] = "sleeping" => n_poll[c] < MaxPolls

(* ------------------------------- claims ------------------------------- *)
\* the deadline of call c on the scale of elapsed[c]
Deadline(c) == timeout[c] * 1000

\* the call passed the registry and handler lookup
LookedUp(c) == DOMAIN registry_entry[c] # {}

\* the polling loop of call c was entered (the submit answer had a job handle)
Polling(c) == exec_response[c].got = "dict" /\ exec_response[c].job_id \notin {None, ""}

\* every get_result of call c so far answered a non-terminal status
OnlyNonTerminal(c) == failed_at[c] = 0 /\ ~poll_raised[c]

\* C1: a call one of whose polls reported `failed` with message M ends by
\* raising an execution failure that carries M, never in TimeoutError and
\* never by returning a value.
C1_FailedRaisesFailure ==
    \A c \in Calls :
        (pc[c] = "done" /\ failed_at[c] # 0)
            => (outcome[c].kind = "RuntimeError" /\ outcome[c].value = failed_msg[c])

\* C2: once a poll of a call has observed `failed`, the call has ended at that
\* poll: no get_result and no sleep comes after it.
C2_NoPollAfterFailed ==
    \A c \in Calls :
        failed_at[c] # 0
            => (pc[c] = "done" /\ n_poll[c] = failed_at[c] /\ n_sleep[c] = failed_at[c])

\* C3: when polls 1..N-1 answered non-terminal statuses and poll N answers
\* `completed` with payload P, the call ends at that poll returning exactly P,
\* after one submission and N get_result calls (and as many sleeps).
C3_CompletedOnNthPoll ==
    \A c \in Calls :
        (last_poll[c].got = "dict" /\ last_poll[c].status = "completed"
            /\ OnlyNonTerminal(c))
            => /\ pc[c] = "done"
               /\ outcome[c] = [kind |-> "return", of |-> "data",
                                value |-> last_poll[c].data]
               /\ n_submit[c] = 1
               /\ n_sleep[c] = n_poll[c]

C3_Witness ==
    \E c \in Calls :
        /\ pc[c] = "done" /\ OnlyNonTerminal(c)
        /\ n_poll[c] >= 2
        /\ last_poll[c].status = "completed" /\ last_poll[c].data = "P"
        /\ outcome[c].kind = "return" /\ outcome[c].value = "P"

\* every get_result of call c so far returned at once
Instant(c) == elapsed[c] = n_poll[c] * PollInterval(registry_entry[c].server_config)

\* C4: with instantaneous handler calls a polling call has ended by
\* timeout + one poll_interval after the start of polling; no iteration is
\* begun once the deadline has passed, and a call that ends without a
\* `completed` poll ends in TimeoutError.
C4_TimeoutBound ==
    \A c \in Calls :
        Polling(c) =>
            /\ (pc[c] = "sleeping" => elapsed[c] < Deadline(c))
            /\ Instant(c) =>
                 elapsed[c] <= Deadline(c) + PollInterval(registry_entry[c].server_config)
            /\ (pc[c] = "done" /\ last_poll[c].status # "completed")
                 => (outcome[c].kind = "TimeoutError" /\ elapsed[c] >= Deadline(c))

C4_Witness ==
    \E c \in Calls :
        /\ pc[c] = "done" /\ Polling(c) /\ Instant(c)
        /\ n_poll[c] >= 2 /\ timeout[c] > 0
        /\ outcome[c].kind = "TimeoutError"
        /\ OnlyNonTerminal(c)

\* C5: every call in flight eventually ends, and ends as a returned result,
\* a raised failure or a raised timeout.
C5_CallEnds ==
    \A c \in Calls :
        (pc[c] \in {"submitting", "sleeping", "polling"})
            ~> (pc[c] = "done"
                /\ outcome[c].kind \in {"return", "ValueError", "RuntimeError",
                                        "HandlerError", "TimeoutError"})

C5_Witness ==
    \E c \in Calls :
        /\ pc[c] = "done" /\ outcome[c].kind = "TimeoutError"
        /\ poll_raised[c] /\ n_poll[c] >= 2 /\ failed_at[c] = 0
        /\ last_poll[c].got = "raise"

\* C6: a submit answer without a job handle is returned to the caller only
\* when its status is `completed` (and then as its data); any other status is
\* surfaced as an error.
C6_NoHandleOnlyCompletedReturns ==
    \A c \in Calls :
        (pc[c] = "done" /\ exec_response[c].got = "dict"
            /\ exec_response[c].job_id \in {None, ""}
            /\ outcome[c].kind = "return")
            => (exec_response[c].status = "completed" /\ outcome[c].of = "data")

\* C7: a call with an unregistered name ends in the not-found error without
\* any handler operation, and no call on a registered name ends in an error
\* of that kind.
C7_NotFoundDistinct ==
    \A c \in Calls :
        pc[c] = "done" =>
            IF LookedUp(c)
            THEN outcome[c].kind # "ValueError"
            ELSE /\ outcome[c].kind = "ValueError"
                 /\ n_submit[c] = 0 /\ n_poll[c] = 0

\* C8 as stated: every call that has ended invoked the handler's submit
\* operation exactly once.
C8_Original ==
    \A c \in Calls : pc[c] = "done" => n_submit[c] = 1

\* C8 amended: a call that passed the registry lookup invokes submit exactly
\* once, whatever polling does afterwards; a call that ends in the not-found
\* error invokes it not at all.
C8_SubmitOnce ==
    \A c \in Calls :
        /\ pc[c] \in {"submitting", "sleeping", "polling"} => n_submit[c] = 1
        /\ pc[c] = "done" => n_submit[c] = (IF LookedUp(c) THEN 1 ELSE 0)

C8_Witness ==
    \E c \in Calls :
        /\ pc[c] = "done" /\ n_submit[c] = 1
        /\ failed_at[c] # 0 /\ poll_raised[c]
        /\ outcome[c].kind = "TimeoutError"

\* C9: a submit answer with status `completed` and no job handle is returned
\* as its data with no sleep and no get_result call.
C9_InlineResult ==
    \A c \in Calls :
        (pc[c] \in {"sleeping", "polling", "done"}
            /\ exec_response[c].got = "dict"
            /\ exec_response[c].job_id \in {None, ""}
            /\ exec_response[c].status = "completed")
            => /\ pc[c] = "done"
               /\ outcome[c] = [kind |-> "return", of |-> "data",
                                value |-> exec_response[c].data]
               /\ n_sleep[c] = 0 /\ n_poll[c] = 0 /\ elapsed[c] = 0

C9_Witness ==
    \E c \in Calls :
        /\ pc[c] = "done" /\ exec_response[c].got = "dict"
        /\ exec_response[c].job_id = "" /\ exec_response[c].status = "completed"
        /\ exec_response[c].data = "P" /\ outcome[c].value = "P"

\* statuses the loop treats as "not finished yet"
NonTerminal(r) == r.got = "dict" /\ r.status \notin {"completed", "failed"}

\* C10: a poll that answers pending, processing or an unrecognized status
\* does not end the call while the deadline has not passed (the loop sleeps
\* again), ends it only in TimeoutError, and a later poll that answers
\* `completed` still returns its data.
C10_NonTerminalContinues ==
    [][\A c \in Calls :
         (pc[c] = "polling" /\ pc'[c] # "polling") =>
            /\ NonTerminal(last_poll'[c]) =>
                 IF elapsed'[c] < Deadline(c)
                 THEN pc'[c] = "sleeping" /\ n_sleep'[c] = n_sleep[c] + 1
                 ELSE pc'[c] = "done" /\ outcome'[c].kind = "TimeoutError"
            /\ (NonTerminal(last_poll[c]) /\ last_poll'[c].got = "dict"
                  /\ last_poll'[c].status = "completed")
                 => (pc'[c] = "done" /\ outcome'[c].kind = "return"
                     /\ outcome'[c].value = last_poll'[c].data)]_vars

C10_Witness ==
    \E c \in Calls :
        /\ pc[c] = "done" /\ OnlyNonTerminal(c) /\ n_poll[c] >= 2
        /\ last_poll[c].status = "completed"
        /\ last_poll[c].data = None
        /\ outcome[c].kind = "return" /\ outcome[c].of = "data"
        /\ outcome[c].value = None

\* a server name lower-cased and with its spaces replaced by underscores,
\* letter by letter
Normalized(name) ==
    [i \in DOMAIN name |->
        CASE name[i] = " " -> "_"
          [] name[i] = "A" -> "a"
          [] name[i] = "B" -> "b"
          [] name[i] = "C" -> "c"
          [] name[i] = "D" -> "d"
          [] OTHER -> name[i]]

\* C12: the registration of a named tool by initialize_tools of the current
\* dispatcher: when its local name is not in the registry it is entered
\* under that name; when it is, it is entered under the normalized server
\* name + "_" + local name with the local name recorded as its original
\* name, and the entry under the local name stays as it was.
C12_CollisionRenames ==
    [][(cur_pc = "tools" /\ cur_tools # << >> /\ Head(cur_tools).tool_name # << >>) =>
         LET server == servers_config[cur_idx]
             local  == Head(cur_tools).tool_name
             reg    == cur_tool_registry
             reg1   == cur_tool_registry'
             key    == IF local \in DOMAIN reg
                       THEN Normalized(server.name) \o <<"_">> \o local
                       ELSE local
         IN /\ DOMAIN reg1 = (DOMAIN reg) \cup {key}
            /\ reg1[key].original_tool_name = local
            /\ reg1[key].server_id = server.id
            /\ \A k \in (DOMAIN reg) \ {key} : reg1[k] = reg[k]
            /\ local \in DOMAIN reg => (key # local /\ reg1[local] = reg[local])
      ]_vars

C12_Witness ==
    /\ DOMAIN cur_tool_registry = { <<"t">>, <<"a", "_", "b", "_", "t">> }
    /\ cur_tool_registry[<<"t">>].server_id = 2
    /\ cur_tool_registry[<<"a", "_", "b", "_", "t">>].server_id = 1
    /\ cur_tool_registry[<<"a", "_", "b", "_", "t">>].original_tool_name = <<"t">>
    /\ cur_pc = "idle"

\* C13: when a run of initialize_tools of the current dispatcher was given
\* the same rows and the same discovery answers as the run before it, it
\* leaves the registry that run left.
C13_RerunSameRegistry ==
    (cur_pc = "idle" /\ cur_log.ran /\ cur_prev.log.ran /\ cur_log = cur_prev.log)
        => cur_tool_registry = cur_prev.registry

\* the same of the polling dispatcher, which never clears its registry
\* (a property of RunSpec): a run given what the run before it was given
\* leaves the registry as it found it
ArchiveRerunSameRegistry ==
    [][(last_run.ran /\ last_run'.ran /\ last_run'.store_ok = last_run.store_ok
          /\ last_run'.rows = last_run.rows /\ last_run'.answers = last_run.answers)
         => tool_registry' = tool_registry]_vars

C13_Witness ==
    /\ cur_pc = "idle" /\ cur_log.ran /\ cur_log = cur_prev.log
    /\ cur_log.rows = <<CurServer1, CurServer2>>
    /\ Len(cur_log.answers[1].tools) = 3
    /\ Len(cur_log.answers[2].tools) = 1
    /\ cur_tool_registry = cur_prev.registry
    /\ DOMAIN cur_tool_registry = { <<"t">>, <<"a", "_", "b", "_", "t">>,
                                    <<"c", "_", "t">> }

\* the named tools of the list are in the registry as tools of that server
Registered(reg, server, tools) ==
    \A i \in 1..Len(tools) :
        tools[i].name # << >> =>
            /\ PrefixedToolName(server, tools[i].name) \in DOMAIN reg
            /\ reg[PrefixedToolName(server, tools[i].name)]
                 = [server_config |-> server, tool_config |-> tools[i]]

\* the rows of the run whose discover_tools raised / answered
DiscoveryErrors(run) ==
    { i \in 1..Len(run.rows) : HasHandler(run.rows[i]) /\ run.answers[i].disc.raised }
DiscoveryAnswered(run) ==
    { i \in 1..Len(run.rows) : HasHandler(run.rows[i]) /\ ~run.answers[i].disc.raised }

\* no operation of the configuration store failed in the run
StoreHealthy(run) ==
    /\ run.store_ok
    /\ \A i \in 1..Len(run.rows) : run.answers[i].ok1 /\ run.answers[i].ok2

C15_StoreFailureTolerated ==
    (last_run.ran /\ ~StoreHealthy(last_run))
        => /\ ~last_run.raised
           /\ \A i \in DiscoveryAnswered(last_run) :
                Registered(tool_registry, last_run.rows[i],
                           ToolsToRegister(last_run.rows[i], last_run.answers[i].disc))

\* the index of the last row whose iteration the run began (0: none)
LastProcessed(run) ==
    IF run.processed = {} THEN 0
    ELSE CHOOSE i \in 1..Len(run.rows) :
            /\ run.rows[i].id \in run.processed
            /\ \A j \in (i+1)..Len(run.rows) : run.rows[j].id \notin run.processed

\* C16: a row whose protocol_type has no handler puts no entry into the
\* registry, has no handler operation attempted for it, does not make
\* initialize_tools raise, and the row after it is processed.
C16_NoHandlerSkipped ==
    /\ \A k \in DOMAIN tool_registry : HasHandler(tool_registry[k].server_config)
    /\ last_run.ran =>
         \A i \in 1..Len(last_run.rows) :
            (last_run.rows[i].id \in last_run.processed
                /\ ProtocolType(last_run.rows[i]) \notin protocol_handlers)
                => /\ last_run.rows[i].id \notin last_run.discovered
                   /\ IF i = LastProcessed(last_run)
                      THEN ~last_run.raised /\ i = Len(last_run.rows)
                      ELSE last_run.rows[i+1].id \in last_run.processed

C16_Witness ==
    /\ last_run.ran /\ ~last_run.raised
    /\ last_run.rows = <<ServerB, ServerD, ServerA>>
    /\ last_run.processed = {2, 4, 1}
    /\ last_run.discovered = {2, 1}
    /\ last_run.answers[1].disc.tools # << >>
    /\ last_run.answers[3].disc.tools # << >>
    /\ DOMAIN tool_registry = { PrefixedToolName(ServerB, <<"u">>),
                                PrefixedToolName(ServerA, <<"u">>) }

\* the names of the tools of a list
ToolNames(tools) == { tools[i].name : i \in 1..Len(tools) } \ { << >> }

\* C17: for a server whose discovery answered, a run registers the tool list
\* stored on the row when the discovered list is empty, and when it is not
\* empty it registers the discovered tools and adds no entry for a stored
\* tool that was not discovered.
C17_StoredToolsFallback ==
    [][\A i \in DiscoveryAnswered(last_run') :
         last_run'.rows[i].id \in last_run'.processed =>
            LET server     == last_run'.rows[i]
                discovered == last_run'.answers[i].disc.tools
            IN IF discovered = << >>
               THEN Registered(tool_registry', server, server.tools)
               ELSE /\ Registered(tool_registry', server, discovered)
                    /\ \A n \in ToolNames(server.tools) \ ToolNames(discovered) :
                         PrefixedToolName(server, n) \in DOMAIN tool_registry'
                            => PrefixedToolName(server, n) \in DOMAIN tool_registry
      ]_vars

C17_Witness ==
    /\ last_run.ran /\ ~last_run.raised
    /\ last_run.rows = <<ServerA, ServerB, ServerC, ServerD>>
    /\ last_run.answers[1].disc.tools # << >>
    /\ last_run.answers[2].disc.tools = << >>
    /\ DOMAIN tool_registry = { PrefixedToolName(ServerA, <<"u">>) }

\* C20: a run of health_check_all_servers never raises, and when no server
\* answers its health check every entry of the map it returns is false and
\* carries the error detail.
C20_HealthCheckNeverRaises ==
    last_health.ran =>
        /\ ~last_health.raised
        /\ last_health.unreachable =>
             \A n \in DOMAIN last_health.status :
                /\ ~last_health.status[n].healthy
                /\ "error" \in DOMAIN last_health.status[n]

\* C21: a run of health_check_all_servers that returns has awaited
\* health_check exactly once for every distinct server that a registry entry
\* refers to, and the map it returns has exactly one entry per such server.
C21_OncePerServer ==
    (last_health.ran /\ ~last_health.raised) =>
        LET servers == RegistryServers(tool_registry)
        IN /\ \A srv \in servers : last_health.checked[srv.id] = 1
           /\ Cardinality(DOMAIN last_health.status) = Cardinality(servers)

\* C22: a call of a generated callable returns a string whatever way the
\* handler's execute_tool ended and whether or not the tool is in the
\* registry; no exception leaves the callable.
C22_BridgeReturnsString ==
    bridge.called =>
        /\ bridge.mcp_tool_wrapper.kind = "return"
        /\ bridge.mcp_tool_wrapper.value.type = "str"
        /\ bridge.tool_wrapper.kind = "return"
        /\ bridge.tool_wrapper.value.type = "str"

C22_Witness ==
    /\ bridge.called /\ bridge.found
    /\ bridge.handler.kind = "raise"
    /\ bridge.tool_wrapper = Returned(Str("Error: Tool execution failed"))

\* C23: the name given to a wrapper is an injective function of the tool's
\* name: two wrappers made for tools of different names have different
\* names, also when the tool names differ only in '-', '_' or ' '.
C23_SanitizeInjective ==
    \A i, j \in 1..Len(function_tools) :
        function_tools[i].tool_name # function_tools[j].tool_name
            => function_tools[i].name # function_tools[j].name

\* C24: execute_tool and get_result of a handler do not raise on a network,
\* HTTP-status or parse failure: what reaches the dispatcher from either is
\* always a returned value.
C24_HandlersReturnErrors ==
    \A c \in Calls : exec_response[c].got # "raise" /\ last_poll[c].got # "raise"

\* C25: a call that has submitted a job has a strictly positive timeout and
\* a strictly positive poll interval.
C25_PositiveIntervalAndTimeout ==
    \A c \in Calls :
        n_submit[c] >= 1 =>
            /\ timeout[c] > 0
            /\ PollInterval(registry_entry[c].server_config) > 0

\* a server name with its spaces replaced by underscores, letter by letter
Underscored(name) == [i \in DOMAIN name |-> IF name[i] = " " THEN "_" ELSE name[i]]

\* C26: every registry entry of the polling dispatcher is filed under its
\* server's name with spaces turned into underscores, an underscore and the
\* tool's own name; and a call on such a display name gives the handler
\* selected by that server's protocol_type the server's own row and the
\* tool's unprefixed name.
C26_PrefixedNameDispatch ==
    /\ \A k \in DOMAIN tool_registry :
          k = Underscored(tool_registry[k].server_config.name) \o <<"_">>
                \o tool_registry[k].tool_config.name
    /\ \A c \in Calls :
          n_submit[c] >= 1 =>
             \E S \in {ServerA, ServerB, ServerC, ServerD} :
                /\ handler_args[c].server_config = S
                /\ handler_args[c].protocol_type = S.protocol_type
                /\ tool_name[c] = Underscored(S.name) \o <<"_">>
                                     \o handler_args[c].tool_name

C26_Witness ==
    \E c \in Calls :
        /\ pc[c] = "done" /\ n_submit[c] = 1
        /\ tool_name[c] = <<"a", "_", "b", "_", "t">>
        /\ handler_args[c] = [protocol_type |-> "http", server_config |-> ServerA,
                              tool_name |-> <<"t">>]
        /\ outcome[c].kind = "return"

\* C30: a get_result that raises does not end the call: while the deadline
\* has not passed the loop sleeps and polls again, once it has passed the
\* call ends in TimeoutError and not in the poll's exception, and a later
\* poll that answers `completed` is returned as its data.
C30_PollExceptionContinues ==
    [][\A c \in Calls :
         (pc[c] = "polling" /\ pc'[c] # "polling") =>
            /\ last_poll'[c].got = "raise" =>
                 IF elapsed'[c] < Deadline(c)
                 THEN pc'[c] = "sleeping" /\ outcome'[c] = NoOutcome
                 ELSE pc'[c] = "done" /\ outcome'[c].kind = "TimeoutError"
            /\ (last_poll[c].got = "raise" /\ last_poll'[c].got = "dict"
                  /\ last_poll'[c].status = "completed")
                 => (pc'[c] = "done" /\ outcome'[c].kind = "return"
                     /\ outcome'[c].value = last_poll'[c].data)]_vars

C30_Witness ==
    \E c \in Calls :
        /\ pc[c] = "done" /\ poll_raised[c] /\ failed_at[c] = 0
        /\ n_poll[c] >= 2
        /\ last_poll[c].got = "dict" /\ last_poll[c].status = "completed"
        /\ outcome[c] = [kind |-> "return", of |-> "data", value |-> "P"]

\* C27: a run of initialize_tools loses no tool: when it has returned, every
\* named tool that a server of the run listed has a registry entry of its
\* own, that of its server and its local name.
C27_NoToolLost ==
    (cur_pc = "idle" /\ cur_log.ran /\ cur_log.store_ok) =>
        \A i \in 1..Len(cur_log.rows) :
           \A j \in 1..Len(cur_log.answers[i].tools) :
              LET local == cur_log.answers[i].tools[j].tool_name
              IN local # << >> =>
                   \E k \in DOMAIN cur_tool_registry :
                      /\ cur_tool_registry[k].server_id = cur_log.rows[i].id
                      /\ cur_tool_registry[k].original_tool_name = local

\* C28: when a run of initialize_tools has returned, every registry entry
\* belongs to a server among the active rows that run read; entries of a
\* server that is no longer active, and entries from before a run that read
\* no active row, are gone.
C28_OnlyActiveServersRemain ==
    (last_run.ran /\ last_run.store_ok /\ ~last_run.raised) =>
        \A k \in DOMAIN tool_registry :
           \E i \in 1..Len(last_run.rows) :
              tool_registry[k].server_config = last_run.rows[i]

\* C29: a call that starts while initialize_tools is re-run, for a name that
\* is in the registry both before and after the re-run, is never answered
\* that the tool is not in the registry.
C29_FoundDuringRerun ==
    (/\ cur_pc = "idle"
     /\ bridge.called /\ bridge.in_run
     /\ bridge.name \in DOMAIN cur_prev.registry
     /\ bridge.name \in DOMAIN cur_tool_registry)
        => bridge.found

\* C19: no step of an execute_tool call adds, removes or changes an entry of
\* the registry.
C19_RegistryReadOnly ==
    [][call_vars' # call_vars => tool_registry' = tool_registry]_vars

C19_Witness ==
    \E c \in Calls :
        /\ pc[c] = "done" /\ LookedUp(c) /\ n_poll[c] >= 1
        /\ outcome[c].kind = "return"
        /\ tool_name[c] \in DOMAIN tool_registry
        /\ tool_registry[tool_name[c]] = registry_entry[c]
        /\ Cardinality(DOMAIN tool_registry) >= 2

\* everything execute_tool call c holds
CallState(c) ==
    <<pc[c], tool_name[c], registry_entry[c], timeout[c], exec_response[c],
      job_id[c], elapsed[c], n_submit[c], n_sleep[c], n_poll[c], last_poll[c],
      failed_at[c], failed_msg[c], poll_raised[c], outcome[c], polled[c]>>

\* C18: of two execute_tool calls in flight at the same time each makes one
\* submission of its own, passes to get_result only the job id its own
\* submission was answered, and keeps to the deadline of its own timeout; no
\* step of one call changes anything the other call holds.
C18_CallsIndependent ==
    /\ [](\A c \in Calls :
            /\ pc[c] \in {"submitting", "sleeping", "polling"} => n_submit[c] = 1
            /\ polled[c] # {} => (Polling(c) /\ polled[c] = {exec_response[c].job_id})
            /\ Polling(c) =>
                 /\ pc[c] = "sleeping" => elapsed[c] < Deadline(c)
                 /\ Instant(c) =>
                      elapsed[c] <= Deadline(c)
                                      + PollInterval(registry_entry[c].server_config))
    /\ [][\A c \in Calls : \A d \in Calls \ {c} :
            CallState(c)' # CallState(c) => CallState(d)' = CallState(d)]_vars

C18_Witness ==
    /\ pc["c1"] = "polling" /\ pc["c2"] = "done"
    /\ tool_name["c1"] # tool_name["c2"]
    /\ timeout["c1"] = 2 /\ timeout["c2"] = 1
    /\ polled["c1"] = {"j1"} /\ polled["c2"] = {"j2"}
    /\ n_poll["c1"] = 2 /\ elapsed["c1"] = 2000
    /\ outcome["c2"].kind = "TimeoutError" /\ elapsed["c2"] = 2000
    /\ n_submit["c1"] = 1 /\ n_submit["c2"] = 1

====
